---- MODULE Spec2Model ----
(***************************************************************************)
(* Model of main.py: the price-series reconstruction pipeline.             *)
(*                                                                         *)
(*   prices.csv --pivot_table--> df_prices --[:"2024-12-31"]-->            *)
(*   (ticker_changes.csv) combine_changed_tickers --> df_series            *)
(*   (splits.csv) np.where(index >= effective_date, s * ratio, s)          *)
(*   df_series[beginning_date:] --> t0, t1, r                              *)
(*                                                                         *)
(* A parsed date is a day number of the year 2024 (366 = 2024-12-31); the   *)
(* date column of prices.csv holds text, which pivot_table sorts as text   *)
(* before pd.to_datetime parses it.                                        *)
(* float64 cells are modelled as extended rationals [num, den]:            *)
(*   den > 0 a finite value in lowest terms, 0/0 = NaN, 1/0 = inf,         *)
(*   -1/0 = -inf.  Every arithmetic result is rounded to the nearest value *)
(*   of MantissaBits significant bits, ties to even, as IEEE-754 does with *)
(*   53 bits.                                                              *)
(***************************************************************************)
EXTENDS Integers, Sequences, FiniteSets, TLC

VARIABLES
    prices_csv,             \* rows of prices.csv: [date, ticker, close_price]
    ticker_changes_csv,     \* rows of ticker_changes.csv
    splits_csv,             \* rows of splits.csv
    argv,                   \* [input_ticker, input_timeframe]
    df_prices,              \* pivoted table
    old_ticker, new_ticker, effective_date_ticker,
    df_series,              \* the series being built
    tickers,                \* list(set([old_ticker, new_ticker]))
    i,                      \* position of the split loop in tickers
    t0, t1,                 \* first / last price of the window
    outcome,                \* what the run printed or raised
    pc

vars == <<prices_csv, ticker_changes_csv, splits_csv, argv, df_prices,
          old_ticker, new_ticker, effective_date_ticker, df_series,
          tickers, i, t0, t1, outcome, pc>>

-----------------------------------------------------------------------------
(* Bounds and input domains *)

MaxRows == 2        \* rows of prices.csv
MantissaBits == 12  \* significant bits of a float (53 in float64)

Tickers == {"FB", "META"}
Dates == {364, 366}
LateDates == {367}                      \* after the analysis end date

\* the date column as text, in ISO-8601 and in month/day/year form
ISOTexts == {"2024-12-29", "2024-12-31", "2025-01-01"}
MDYTexts == {"12/29/2024", "12/31/2024", "1/1/2025"}

\* pd.to_datetime of a date text
to_datetime(text) ==
    CASE text \in {"2024-12-29", "12/29/2024"} -> 364
      [] text \in {"2024-12-31", "12/31/2024"} -> 366
      [] text \in {"2025-01-01", "1/1/2025"} -> 367

\* the place of a date text in the order of Python strings:
\* "1/1/2025" < "12/29/2024" < "12/31/2024" < "2024-12-29" < "2024-12-31" < "2025-01-01"
TextRank(text) ==
    CASE text = "1/1/2025" -> 1
      [] text = "12/29/2024" -> 2
      [] text = "12/31/2024" -> 3
      [] text = "2024-12-29" -> 4
      [] text = "2024-12-31" -> 5
      [] text = "2025-01-01" -> 6
Prices == {0, 26, 50}
ChangeDates == {366}
SplitDates == {366}
Quantities == {<<1, 2>>, <<1, 3>>, <<3, 1>>}    \* <<from_quantity, to_quantity>>
Timeframes == {"1 day", "5 days"}

\* "2024-12-31" as a day number of 2024
analysis_end_date == 366

dict_timeframes ==
    [k \in {"1 day", "5 days", "6 months", "1 year"} |->
        CASE k = "1 day" -> 1
          [] k = "5 days" -> 5
          [] k = "6 months" -> 183
          [] k = "1 year" -> 365]

-----------------------------------------------------------------------------
(* float64 as extended rationals, rounded to MantissaBits significant bits *)

Abs(n) == IF n < 0 THEN -n ELSE n
Sign(n) == IF n < 0 THEN -1 ELSE IF n > 0 THEN 1 ELSE 0

RECURSIVE GCD(_, _)
GCD(a, b) == IF b = 0 THEN a ELSE GCD(b, a % b)

RECURSIVE Pow2(_)
Pow2(k) == IF k = 0 THEN 1 ELSE 2 * Pow2(k - 1)

\* n/d with d >= 0, in lowest terms; d = 0 gives NaN or +-inf
Float(n, d) ==
    IF d = 0 THEN [num |-> Sign(n), den |-> 0]
    ELSE LET g == GCD(Abs(n), d) IN [num |-> n \div g, den |-> d \div g]

NaN == [num |-> 0, den |-> 0]
IsNaN(x) == x.num = 0 /\ x.den = 0
IsFinite(x) == x.den > 0

\* round half to even of n/d (d > 0) to an integer
RoundInt(n, d) ==
    LET q == n \div d
        rem == n - q * d
    IN IF 2 * rem < d THEN q
       ELSE IF 2 * rem > d THEN q + 1
       ELSE IF q % 2 = 0 THEN q ELSE q + 1

\* a/d (a, d > 0) brought into [2^(MantissaBits-1), 2^MantissaBits) by a power
\* of two sn/sd, rounded there to an integer: <<numerator, denominator>>
RECURSIVE Normalize(_, _, _, _)
Normalize(a, d, sn, sd) ==
    IF a \div d >= Pow2(MantissaBits)
    THEN (IF a % 2 = 0 THEN Normalize(a \div 2, d, 2 * sn, sd)
          ELSE Normalize(a, 2 * d, 2 * sn, sd))
    ELSE IF a \div d < Pow2(MantissaBits - 1)
    THEN (IF d % 2 = 0 THEN Normalize(a, d \div 2, sn, 2 * sd)
          ELSE Normalize(2 * a, d, sn, 2 * sd))
    ELSE <<RoundInt(a, d) * sn, sd>>

\* the float nearest to the real number n/d (d > 0), ties to even
Nearest(n, d) ==
    IF n = 0 THEN Float(0, 1)
    ELSE LET g == GCD(Abs(n), d)
             m == Normalize(Abs(n) \div g, d \div g, 1, 1)
         IN Float(Sign(n) * m[1], m[2])

FMul(x, y) ==
    IF IsNaN(x) \/ IsNaN(y) THEN NaN
    ELSE IF x.den = 0 \/ y.den = 0 THEN Float(x.num * y.num, 0)
    ELSE Nearest(x.num * y.num, x.den * y.den)

FDiv(x, y) ==
    IF IsNaN(x) \/ IsNaN(y) THEN NaN
    ELSE LET n == x.num * y.den
             d == x.den * y.num
         IN IF d = 0 THEN Float(IF y.num < 0 THEN -n ELSE n, 0)
            ELSE IF d < 0 THEN Nearest(-n, -d)
            ELSE Nearest(n, d)

FSub(x, y) ==
    IF IsNaN(x) \/ IsNaN(y) THEN NaN
    ELSE IF x.den = 0 /\ y.den = 0
         THEN (IF x.num = y.num THEN NaN ELSE x)
    ELSE IF x.den = 0 THEN x
    ELSE IF y.den = 0 THEN [num |-> -y.num, den |-> 0]
    ELSE Nearest(x.num * y.den - y.num * x.den, x.den * y.den)

\* round(x, 2) of a float: rint(x * 100) / 100
Round2(x) ==
    IF ~IsFinite(x) THEN x
    ELSE LET scaled == FMul(x, Float(100, 1))
         IN FDiv(Float(RoundInt(scaled.num, scaled.den), 1), Float(100, 1))

-----------------------------------------------------------------------------
(* Series and table helpers *)

\* a set of date texts, sorted as strings
RECURSIVE SortedSeq(_)
SortedSeq(S) ==
    IF S = {} THEN <<>>
    ELSE LET m == CHOOSE x \in S : \A y \in S : TextRank(x) <= TextRank(y)
         IN <<m>> \o SortedSeq(S \ {m})

RECURSIVE SumPrices(_, _)
SumPrices(rows, K) ==
    IF K = {} THEN 0
    ELSE LET k == CHOOSE x \in K : TRUE
         IN rows[k].close_price + SumPrices(rows, K \ {k})

EmptySeries == [index |-> <<>>, values |-> <<>>]

\* s[:label] on a sorted index: every position whose date is <= label
SliceTo(s, label) ==
    LET n == Cardinality({k \in DOMAIN s.index : s.index[k] <= label})
    IN [index |-> SubSeq(s.index, 1, n), values |-> SubSeq(s.values, 1, n)]

\* s[label:] on a sorted index: every position whose date is >= label
SliceFrom(s, label) ==
    LET n == Cardinality({k \in DOMAIN s.index : s.index[k] < label})
        m == Len(s.index)
    IN [index |-> SubSeq(s.index, n + 1, m), values |-> SubSeq(s.values, n + 1, m)]

\* s[:-1]
DropLast(s) ==
    LET m == Len(s.index)
    IN [index |-> SubSeq(s.index, 1, m - 1), values |-> SubSeq(s.values, 1, m - 1)]

\* pd.concat([a, b])
Concat(a, b) == [index |-> a.index \o b.index, values |-> a.values \o b.values]

\* df[ticker]; the lookup of an absent column raises KeyError (see KeyError
\* below), so the all-NaN column is never read by the program
Column(df, ticker) ==
    [index |-> df.index,
     values |-> IF ticker \in df.columns THEN df.values[ticker]
                ELSE [p \in DOMAIN df.index |-> NaN]]

-----------------------------------------------------------------------------
(* transform_prices_to_DataFrame *)

\* pd.pivot_table(values='close_price', index=['date'], columns='ticker'),
\* default aggfunc mean: the index is the date texts sorted as strings, a
\* missing cell is NaN; then df_prices.index = pd.to_datetime(df_prices.index)
transform_prices_to_DataFrame(rows) ==
    LET idx == SortedSeq({rows[k].date : k \in DOMAIN rows})
        cols == {rows[k].ticker : k \in DOMAIN rows}
        cell(d, t) ==
            LET K == {k \in DOMAIN rows : rows[k].date = d /\ rows[k].ticker = t}
            IN IF K = {} THEN NaN
               ELSE FDiv(Float(SumPrices(rows, K), 1), Float(Cardinality(K), 1))
    IN [index |-> [p \in DOMAIN idx |-> to_datetime(idx[p])],
        columns |-> cols,
        values |-> [t \in cols |-> [p \in DOMAIN idx |-> cell(idx[p], t)]]]

\* df_prices[:"2024-12-31"]
ClipTable(df, label) ==
    LET n == Cardinality({k \in DOMAIN df.index : df.index[k] <= label})
    IN [index |-> SubSeq(df.index, 1, n),
        columns |-> df.columns,
        values |-> [t \in df.columns |-> SubSeq(df.values[t], 1, n)]]

-----------------------------------------------------------------------------
(* combine_changed_tickers and the rename lookup *)

\* df_all_prices[old_ticker][:effective_date][:-1] followed by
\* df_all_prices[new_ticker][effective_date:]
combine_changed_tickers(df, old, new, effective_date) ==
    LET df_series_old_ticker == DropLast(SliceTo(Column(df, old), effective_date))
        df_series_new_ticker == SliceFrom(Column(df, new), effective_date)
    IN Concat(df_series_old_ticker, df_series_new_ticker)

\* only the old ticker's lookup fails; an absent new ticker reads as all-NaN
KeyError_OldOnly(df, old, new) == old \notin df.columns

\* df_all_prices[old_ticker] or df_all_prices[new_ticker] raises KeyError
KeyError(df, old, new) == old \notin df.columns \/ new \notin df.columns

\* df[filter].values[0]
FirstRow(table, K) ==
    table[CHOOSE k \in K : \A j \in K : k <= j]

\* the if / elif / else of "Account for Ticker Changes"
ResolveTicker(changes, ticker) ==
    LET isOld == {k \in DOMAIN changes : changes[k].old_ticker = ticker}
        isNew == {k \in DOMAIN changes : changes[k].new_ticker = ticker}
    IN IF isOld # {}
       THEN LET row == FirstRow(changes, isOld)
            IN [renamed |-> TRUE, old |-> ticker, new |-> row.new_ticker,
                effective_date |-> row.effective_date]
       ELSE IF isNew # {}
       THEN LET row == FirstRow(changes, isNew)
            IN [renamed |-> TRUE, old |-> row.old_ticker, new |-> ticker,
                effective_date |-> row.effective_date]
       ELSE [renamed |-> FALSE, old |-> ticker, new |-> ticker,
             effective_date |-> 0]

\* the orders in which list(set([old_ticker, new_ticker])) can come out
TickerOrders(old, new) ==
    IF old = new THEN {<<old>>} ELSE {<<old, new>>, <<new, old>>}

-----------------------------------------------------------------------------
(* one iteration of the split loop *)

HasSplit(splits, t) == \E k \in DOMAIN splits : splits[k].ticker = t

SplitRow(splits, t) ==
    FirstRow(splits, {k \in DOMAIN splits : splits[k].ticker = t})

\* the ratio taken the other way round
split_ratio_Inverted(row) ==
    FDiv(Float(row.from_quantity, 1), Float(row.to_quantity, 1))

\* to_quantity / from_quantity
split_ratio(row) ==
    FDiv(Float(row.to_quantity, 1), Float(row.from_quantity, 1))

\* the adjustment applied to the dates strictly before the effective date
ApplySplit_StrictlyBefore(s, row) ==
    [index |-> s.index,
     values |-> [p \in DOMAIN s.index |->
                    IF s.index[p] < row.effective_date
                    THEN FMul(s.values[p], split_ratio(row))
                    ELSE s.values[p]]]

\* np.where(df_series.index >= effective_date_split, df_series * split_ratio, df_series)
ApplySplit(s, row) ==
    [index |-> s.index,
     values |-> [p \in DOMAIN s.index |->
                    IF s.index[p] >= row.effective_date
                    THEN FMul(s.values[p], split_ratio(row))
                    ELSE s.values[p]]]

SplitStep(s, splits, t) ==
    IF HasSplit(splits, t) THEN ApplySplit(s, SplitRow(splits, t)) ELSE s

RECURSIVE SplitLoop(_, _, _)
SplitLoop(s, splits, order) ==
    IF order = <<>> THEN s
    ELSE SplitLoop(SplitStep(s, splits, Head(order)), splits, Tail(order))

-----------------------------------------------------------------------------
(* the return *)

beginning_date(input_timeframe) == analysis_end_date - dict_timeframes[input_timeframe]

\* round(((t1 / t0) - 1) * 100, 2)
Return(first, last) ==
    Round2(FMul(FSub(FDiv(last, first), Float(1, 1)), Float(100, 1)))

NoOutcome == [kind |-> "none", error |-> "", r |-> NaN]
Raised(e) == [kind |-> "error", error |-> e, r |-> NaN]
Printed(r) == [kind |-> "printed", error |-> "", r |-> r]

EmptyTable == [index |-> <<>>, columns |-> {}, values |-> <<>>]

-----------------------------------------------------------------------------
(* Inputs *)

BoundedSeq(S, n) == UNION {[1..k -> S] : k \in 0..n}

RECURSIVE SeqOf(_)
SeqOf(S) ==
    IF S = {} THEN <<>>
    ELSE LET x == CHOOSE y \in S : TRUE IN <<x>> \o SeqOf(S \ {x})

\* the rows whose date is one of the texts T and parses to a date of D
PriceRow(T, D) ==
    [date : {text \in T : to_datetime(text) \in D}, ticker : Tickers, close_price : Prices]

\* price files of at most MaxRows rows with ISO-8601 dates, one file per set
\* of rows
PriceFiles ==
    {SeqOf(S) : S \in {T \in SUBSET PriceRow(ISOTexts, Dates) : Cardinality(T) <= MaxRows}}

ChangeRow ==
    {c \in [old_ticker : Tickers, new_ticker : Tickers, effective_date : ChangeDates] :
        c.old_ticker # c.new_ticker}

\* at most one rename event per old_ticker
TickerChangeFiles ==
    {SeqOf(S) : S \in {T \in SUBSET ChangeRow :
                        \A a, b \in T : a.old_ticker = b.old_ticker => a = b}}

SplitEvent ==
    {[ticker |-> t, effective_date |-> d, from_quantity |-> q[1], to_quantity |-> q[2]] :
        t \in Tickers, d \in SplitDates, q \in Quantities}

\* at most one split event per ticker
SplitFiles ==
    {SeqOf(S) : S \in {T \in SUBSET SplitEvent :
                        \A a, b \in T : a.ticker = b.ticker => a = b}}

InitProgram ==
    /\ df_prices = EmptyTable
    /\ old_ticker = ""
    /\ new_ticker = ""
    /\ effective_date_ticker = 0
    /\ df_series = EmptySeries
    /\ tickers = <<>>
    /\ i = 1
    /\ t0 = NaN
    /\ t1 = NaN
    /\ outcome = NoOutcome
    /\ pc = "load"

Init ==
    /\ prices_csv \in PriceFiles
    /\ ticker_changes_csv \in TickerChangeFiles
    /\ splits_csv \in SplitFiles
    /\ argv \in [input_ticker : Tickers, input_timeframe : Timeframes]
    /\ InitProgram

\* price files in every row order, with dates in one of the two text forms,
\* repeated (date, ticker) rows and rows after the analysis end date included
InitPivot ==
    /\ prices_csv \in BoundedSeq(PriceRow(ISOTexts, Dates \cup LateDates), MaxRows)
                      \cup BoundedSeq(PriceRow(MDYTexts, Dates \cup LateDates), MaxRows)
    /\ ticker_changes_csv = <<>>
    /\ splits_csv = <<>>
    /\ argv \in [input_ticker : Tickers, input_timeframe : Timeframes]
    /\ InitProgram

-----------------------------------------------------------------------------
(* Steps of __main__ *)

\* line 74
LoadPrices ==
    /\ pc = "load"
    /\ df_prices' = transform_prices_to_DataFrame(prices_csv)
    /\ pc' = "clip"
    /\ UNCHANGED <<prices_csv, ticker_changes_csv, splits_csv, argv, old_ticker,
                   new_ticker, effective_date_ticker, df_series, tickers, i, t0, t1,
                   outcome>>

\* line 75
ClipPrices ==
    /\ pc = "clip"
    /\ df_prices' = ClipTable(df_prices, analysis_end_date)
    /\ pc' = "validate"
    /\ UNCHANGED <<prices_csv, ticker_changes_csv, splits_csv, argv, old_ticker,
                   new_ticker, effective_date_ticker, df_series, tickers, i, t0, t1,
                   outcome>>

\* lines 79-101
ValidateInputs ==
    /\ pc = "validate"
    /\ IF argv.input_ticker \notin df_prices.columns
       THEN /\ outcome' = Raised("ValueError: Price data not found for ticker")
            /\ pc' = "done"
       ELSE IF argv.input_timeframe \notin DOMAIN dict_timeframes
       THEN /\ outcome' = Raised("ValueError: not a valid timeframe")
            /\ pc' = "done"
       ELSE /\ outcome' = outcome
            /\ pc' = "ticker_changes"
    /\ UNCHANGED <<prices_csv, ticker_changes_csv, splits_csv, argv, df_prices,
                   old_ticker, new_ticker, effective_date_ticker, df_series, tickers,
                   i, t0, t1>>

\* lines 121-144
AccountForTickerChanges ==
    /\ pc = "ticker_changes"
    /\ LET res == ResolveTicker(ticker_changes_csv, argv.input_ticker)
       IN IF res.renamed /\ KeyError(df_prices, res.old, res.new)
          THEN /\ outcome' = Raised("KeyError")
               /\ pc' = "done"
               /\ UNCHANGED <<old_ticker, new_ticker, effective_date_ticker, df_series,
                              tickers>>
          ELSE /\ old_ticker' = res.old
               /\ new_ticker' = res.new
               /\ effective_date_ticker' = res.effective_date
               /\ df_series' =
                    IF res.renamed
                    THEN combine_changed_tickers(df_prices, res.old, res.new,
                                                 res.effective_date)
                    ELSE Column(df_prices, argv.input_ticker)
               /\ tickers' \in TickerOrders(res.old, res.new)
               /\ pc' = "splits"
               /\ outcome' = outcome
    /\ UNCHANGED <<prices_csv, ticker_changes_csv, splits_csv, argv, df_prices, i, t0, t1>>

\* lines 146-156, one iteration
AccountForStockSplits ==
    /\ pc = "splits"
    /\ i <= Len(tickers)
    /\ df_series' = SplitStep(df_series, splits_csv, tickers[i])
    /\ i' = i + 1
    /\ pc' = IF i = Len(tickers) THEN "return" ELSE "splits"
    /\ UNCHANGED <<prices_csv, ticker_changes_csv, splits_csv, argv, df_prices,
                   old_ticker, new_ticker, effective_date_ticker, tickers, t0, t1,
                   outcome>>

\* lines 160-164
ComputeReturn ==
    /\ pc = "return"
    /\ LET window == SliceFrom(df_series, beginning_date(argv.input_timeframe))
       IN /\ df_series' = window
          /\ IF window.index = <<>>
             THEN /\ outcome' = Raised("IndexError")
                  /\ UNCHANGED <<t0, t1>>
             ELSE /\ t1' = window.values[Len(window.values)]
                  /\ t0' = window.values[1]
                  /\ outcome' = Printed(Return(window.values[1],
                                               window.values[Len(window.values)]))
    /\ pc' = "done"
    /\ UNCHANGED <<prices_csv, ticker_changes_csv, splits_csv, argv, df_prices,
                   old_ticker, new_ticker, effective_date_ticker, tickers, i>>

Next ==
    \/ LoadPrices
    \/ ClipPrices
    \/ ValidateInputs
    \/ AccountForTickerChanges
    \/ AccountForStockSplits
    \/ ComputeReturn

Spec == Init /\ [][Next]_vars

\* the call of transform_prices_to_DataFrame alone
NextPivot == LoadPrices

SpecPivot == InitPivot /\ [][NextPivot]_vars

-----------------------------------------------------------------------------
(* The run over the loaded price table as a function of the query and of   *)
(* the order in which the split loop visits the tickers                    *)

Run(ticker, input_timeframe, reversed) ==
    LET df == df_prices
        res == ResolveTicker(ticker_changes_csv, ticker)
        failed(e) == [built |-> FALSE, stitched |-> EmptySeries, adjusted |-> EmptySeries,
                      window |-> EmptySeries, outcome |-> Raised(e)]
    IN IF ticker \notin df.columns
       THEN failed("ValueError: Price data not found for ticker")
       ELSE IF res.renamed /\ KeyError(df, res.old, res.new)
       THEN failed("KeyError")
       ELSE LET stitched == IF res.renamed
                            THEN combine_changed_tickers(df, res.old, res.new,
                                                         res.effective_date)
                            ELSE Column(df, ticker)
                order == IF res.old = res.new THEN <<res.old>>
                         ELSE IF reversed THEN <<res.new, res.old>>
                         ELSE <<res.old, res.new>>
                adjusted == SplitLoop(stitched, splits_csv, order)
                window == SliceFrom(adjusted, beginning_date(input_timeframe))
                n == Len(window.index)
            IN [built |-> TRUE, stitched |-> stitched, adjusted |-> adjusted,
                window |-> window,
                outcome |-> IF n = 0 THEN Raised("IndexError")
                            ELSE Printed(Return(window.values[1], window.values[n]))]

-----------------------------------------------------------------------------
(* Properties *)

Resolved == ResolveTicker(ticker_changes_csv, argv.input_ticker)

StrictlyAscending(idx) == \A p, q \in DOMAIN idx : p < q => idx[p] < idx[q]

\* the iteration of the split loop about to run applies a split event
SplitIteration ==
    /\ pc = "splits"
    /\ i <= Len(tickers)
    /\ HasSplit(splits_csv, tickers[i])

\* C1 as stated: a split event multiplies every price at a date strictly before
\* its effective date by to_quantity / from_quantity, leaves every price on or
\* after it unchanged, and keeps the dates of the series.
C1_Original ==
    [][SplitIteration =>
        LET row == SplitRow(splits_csv, tickers[i])
            ratio == FDiv(Float(row.to_quantity, 1), Float(row.from_quantity, 1))
        IN /\ df_series'.index = df_series.index
           /\ \A p \in DOMAIN df_series.index :
                df_series'.values[p] =
                    IF df_series.index[p] < row.effective_date
                    THEN FMul(df_series.values[p], ratio)
                    ELSE df_series.values[p]]_vars

\* C1 amended: a split event multiplies every price at a date on or after its
\* effective date by to_quantity / from_quantity, leaves every price strictly
\* before it unchanged, and keeps the dates of the series.
C1_SplitDirection ==
    [][SplitIteration =>
        LET row == SplitRow(splits_csv, tickers[i])
            ratio == FDiv(Float(row.to_quantity, 1), Float(row.from_quantity, 1))
        IN /\ df_series'.index = df_series.index
           /\ \A p \in DOMAIN df_series.index :
                df_series'.values[p] =
                    IF df_series.index[p] >= row.effective_date
                    THEN FMul(df_series.values[p], ratio)
                    ELSE df_series.values[p]]_vars

\* a split has just been applied to a series with a priced date before and a
\* priced date on or after its effective date
C1_Witness ==
    /\ pc \in {"splits", "return"}
    /\ i > 1
    /\ HasSplit(splits_csv, tickers[i - 1])
    /\ LET row == SplitRow(splits_csv, tickers[i - 1])
       IN \E p, q \in DOMAIN df_series.index :
            /\ df_series.index[p] < row.effective_date
            /\ df_series.index[q] >= row.effective_date
            /\ IsFinite(df_series.values[p]) /\ df_series.values[p].num > 0
            /\ IsFinite(df_series.values[q]) /\ df_series.values[q].num > 0

\* the entries of a column at the table dates strictly before a date
Before(s, label) ==
    LET K == {p \in DOMAIN s.index : s.index[p] < label}
        n == Cardinality(K)
    IN [index |-> [k \in 1..n |-> s.index[k]], values |-> [k \in 1..n |-> s.values[k]]]

\* the entries of a column at the table dates on or after a date
OnOrAfter(s, label) ==
    LET K == {p \in DOMAIN s.index : s.index[p] < label}
        n == Cardinality(K)
        m == Len(s.index) - n
    IN [index |-> [k \in 1..m |-> s.index[n + k]], values |-> [k \in 1..m |-> s.values[n + k]]]

\* C2: the stitched series of a renamed ticker is exactly the old ticker's
\* entries at all table dates strictly before the effective date followed by
\* the new ticker's entries at all table dates on or after it, whether or not
\* the effective date is a table date, and is strictly ascending by date.
C2_StrictCut ==
    (pc = "splits" /\ i = 1 /\ Resolved.renamed) =>
        /\ df_series.index =
             Before(Column(df_prices, old_ticker), effective_date_ticker).index
             \o OnOrAfter(Column(df_prices, new_ticker), effective_date_ticker).index
        /\ df_series.values =
             Before(Column(df_prices, old_ticker), effective_date_ticker).values
             \o OnOrAfter(Column(df_prices, new_ticker), effective_date_ticker).values
        /\ StrictlyAscending(df_series.index)

OccursOnce(symbol) ==
    Cardinality({k \in DOMAIN ticker_changes_csv :
                    \/ ticker_changes_csv[k].old_ticker = symbol
                    \/ ticker_changes_csv[k].new_ticker = symbol}) = 1

OtherSymbol ==
    IF argv.input_ticker = Resolved.old THEN Resolved.new ELSE Resolved.old

\* C3: when each symbol of the rename event occurs in exactly one rename row,
\* the run that queries the other symbol of the event builds the same stitched
\* series and the same split-adjusted series and reports the same return, or
\* both runs fail.
C3_SymbolAgnostic ==
    (Resolved.renamed /\ OccursOnce(Resolved.old) /\ OccursOnce(Resolved.new)) =>
        \A reversed \in BOOLEAN :
            LET other == Run(OtherSymbol, argv.input_timeframe, reversed)
            IN /\ (pc = "splits" /\ i = 1) => (other.built /\ df_series = other.stitched)
               /\ pc = "return" => (other.built /\ df_series = other.adjusted)
               /\ pc = "done" =>
                    IF outcome.kind = "error"
                    THEN other.outcome.kind = "error"
                    ELSE outcome = other.outcome /\ df_series = other.window

\* C4: for a ticker without rename and with one split, over a window whose
\* first date is before the split's effective date and whose last date is on
\* or after it, the reported return is the one between the first and the last
\* price put on one share basis (the first price times from_quantity /
\* to_quantity, or the last price times to_quantity / from_quantity); with 50
\* before and 26 after a 1 -> 2 split it is 4.00%.
C4_StraddlingSplit ==
    (/\ pc = "done"
     /\ ~Resolved.renamed
     /\ argv.input_ticker \in df_prices.columns
     /\ HasSplit(splits_csv, argv.input_ticker)) =>
        LET row == SplitRow(splits_csv, argv.input_ticker)
            raw == OnOrAfter(Column(df_prices, argv.input_ticker),
                             beginning_date(argv.input_timeframe))
            n == Len(raw.index)
        IN (/\ n >= 1
            /\ raw.index[1] < row.effective_date
            /\ row.effective_date <= raw.index[n]
            /\ ~IsNaN(raw.values[1])
            /\ ~IsNaN(raw.values[n])) =>
                /\ outcome.kind = "printed"
                /\ outcome.r \in
                     {Return(FMul(raw.values[1],
                                  FDiv(Float(row.from_quantity, 1), Float(row.to_quantity, 1))),
                             raw.values[n]),
                      Return(raw.values[1],
                             FMul(raw.values[n],
                                  FDiv(Float(row.to_quantity, 1), Float(row.from_quantity, 1))))}
                /\ (/\ raw.values[1] = Float(50, 1)
                    /\ raw.values[n] = Float(26, 1)
                    /\ row.from_quantity = 1
                    /\ row.to_quantity = 2) => outcome.r = Float(4, 1)

\* the run over 50 before and 26 after a 1 -> 2 split printed 4.00%
C4_Witness ==
    /\ pc = "done"
    /\ ~Resolved.renamed
    /\ HasSplit(splits_csv, argv.input_ticker)
    /\ SplitRow(splits_csv, argv.input_ticker).from_quantity = 1
    /\ SplitRow(splits_csv, argv.input_ticker).to_quantity = 2
    /\ SplitRow(splits_csv, argv.input_ticker).effective_date = 366
    /\ Column(df_prices, argv.input_ticker).index = <<364, 366>>
    /\ Column(df_prices, argv.input_ticker).values = <<Float(50, 1), Float(26, 1)>>
    /\ argv.input_timeframe = "5 days"
    /\ outcome = Printed(Float(4, 1))

\* the run got as far as the return computation
ReturnComputed ==
    pc = "done" /\ (outcome.kind = "printed" \/ outcome.error = "IndexError")

Positive(x) == IsFinite(x) /\ x.num > 0

\* C5: when the series sliced to the window holds fewer than 2 observations
\* the return computation fails and reports no numeric return (stated for
\* windows whose observations are positive prices).
C5_InsufficientData ==
    (/\ ReturnComputed
     /\ Len(df_series.index) < 2
     /\ \A p \in DOMAIN df_series.index : Positive(df_series.values[p])) =>
        outcome.kind = "error"

\* C6: when the base price t0 is zero or negative the return computation
\* fails and reports no numeric return (stated for windows of at least two
\* observations whose last price is positive).
C6_InvalidPrice ==
    (/\ pc = "done"
     /\ IsFinite(t0) /\ t0.num <= 0
     /\ Len(df_series.index) >= 2
     /\ Positive(t1)) =>
        outcome.kind = "error"

TickerNotFound == {"ValueError: Price data not found for ticker", "KeyError"}

\* C7: when the query ticker or the other ticker of its rename chain has no
\* column in the price table, the run fails with a ticker-not-found error
\* before any series is built, and no return is reported.
C7_TickerNotFound ==
    (/\ pc \notin {"load", "clip"}
     /\ \/ argv.input_ticker \notin df_prices.columns
        \/ Resolved.old \notin df_prices.columns
        \/ Resolved.new \notin df_prices.columns) =>
        /\ pc \in {"validate", "ticker_changes", "done"}
        /\ df_series = EmptySeries
        /\ IsNaN(t0) /\ IsNaN(t1)
        /\ outcome.kind # "printed"
        /\ pc = "done" => (outcome.kind = "error" /\ outcome.error \in TickerNotFound)

\* a query by the old symbol failed because the new symbol has no column
C7_Witness ==
    /\ pc = "done"
    /\ argv.input_ticker \in df_prices.columns
    /\ Resolved.renamed
    /\ argv.input_ticker = Resolved.old
    /\ Resolved.new \notin df_prices.columns
    /\ outcome = Raised("KeyError")

\* C8: the printed return is round(((t1 / t0) - 1) * 100, 2) with t0 the price
\* at the earliest date of the window that has a price and t1 the price at the
\* latest such date; neither is a missing cell (stated for windows that hold
\* a price, all of whose prices are positive).
C8_WindowSlicing ==
    LET K == {p \in DOMAIN df_series.index : ~IsNaN(df_series.values[p])}
    IN (/\ pc = "done"
        /\ outcome.kind = "printed"
        /\ K # {}
        /\ \A p \in K : Positive(df_series.values[p])) =>
            /\ ~IsNaN(t0)
            /\ ~IsNaN(t1)
            /\ \A p \in K :
                 /\ (\A q \in K : p <= q) => t0 = df_series.values[p]
                 /\ (\A q \in K : q <= p) => t1 = df_series.values[p]
            /\ outcome.r = Return(t0, t1)

WellFormed(rows) ==
    \A j, k \in DOMAIN rows :
        (rows[j].date = rows[k].date /\ rows[j].ticker = rows[k].ticker) => j = k

\* the non-missing cells of the wide table as (date, ticker, close_price) rows
Flatten(df) ==
    {[date |-> df.index[p], ticker |-> t, close_price |-> df.values[t][p]] :
        <<p, t>> \in {c \in (DOMAIN df.index) \X df.columns : ~IsNaN(df.values[c[2]][c[1]])}}

RowSet(rows) ==
    {[date |-> to_datetime(rows[k].date), ticker |-> rows[k].ticker,
      close_price |-> [num |-> rows[k].close_price, den |-> 1]] : k \in DOMAIN rows}

\* C9: for price rows with at most one row per (date, ticker), in any row
\* order, flattening the pivoted table gives back exactly the row set (dates
\* as calendar dates), and the table's dates are unique and strictly ascending.
C9_PivotRoundTrip ==
    (pc = "clip" /\ WellFormed(prices_csv)) =>
        /\ Flatten(df_prices) = RowSet(prices_csv)
        /\ StrictlyAscending(df_prices.index)

\* C10: the adjusted series and the outcome of the run are those of the run
\* that visits the tickers of the chain in either order.
C10_Determinism ==
    \A reversed \in BOOLEAN :
        LET run == Run(argv.input_ticker, argv.input_timeframe, reversed)
        IN /\ pc = "return" => (run.built /\ df_series = run.adjusted)
           /\ pc = "done" => outcome = run.outcome

====
